---- MODULE Spec2Model ----
(***************************************************************************)
(* The paper-trading ledger of src/simulation.py (class BettingSimulator): *)
(* wallet balance, bet list, bet placement and the reconciliation pass     *)
(* update_results, with the JSON file the ledger is saved to.              *)
(*                                                                         *)
(* Numbers.  Money is counted in whole dollars and every price in          *)
(* hundredths (0.40 is 40, the 0.99 threshold is 99), so amount / price is *)
(* (amount * 100) \div price.  The argument sets below are chosen so that  *)
(* this quotient is exact; binary floating point rounding and NaN are not  *)
(* modelled.                                                               *)
(***************************************************************************)
EXTENDS Integers, Sequences, FiniteSets, TLC

VARIABLES
    balance,    \* self.balance
    bets,       \* self.bets, a sequence of bet records
    stored,     \* the content of the data file: the last snapshot written
    file,       \* whether the data file is there and json.load can read it
    clock,      \* the last reading of datetime.now()
    call,       \* the last call made on the ledger: its name and arguments
    ret,        \* what that call returned, or the exception it raised
    saves,      \* number of save_data calls made during that call
    wrote,      \* how the write of that save_data call ended
    lookups,    \* per bet, what client.get_market did for it during that call
    feed,       \* what the upstream API currently holds for market "m1"
    deposits,   \* number of add_funds calls that credited the balance
    shown,      \* the list the last get_portfolio call returned
    other       \* a second BettingSimulator object on the same data file

vars ==
    <<balance, bets, stored, file, clock, call, ret, saves, wrote, lookups,
      feed, deposits, shown, other>>

----------------------------------------------------------------------------
(* Bounds and argument sets *)

MaxBets == 2

InitialBalance == 1000

WinThreshold == 99

None == "None"

\* The arguments place_bet is called with, <<outcome, amount, price,
\* market_id>>: the stake of Scenario A, the stake that takes all that is
\* left after it, a negative stake, a zero price, and a bet without market id.
BetArgs ==
    { <<"Yes", 100, 40, "m1">>,
      <<"No", 900, 40, "m1">>,
      <<"Yes", -200, 40, "m1">>,
      <<"Yes", 100, 0, "m1">>,
      <<"Yes", 100, 40, None>> }

ValidBetArgs ==
    { args \in BetArgs : args[2] > 0 /\ args[3] > 0 /\ args[3] <= 100 }

EventTitle == "Event X"

MarketQuestion == "Will X win?"

----------------------------------------------------------------------------
(* Upstream market data, as client.get_market returns it *)

\* An entry of a price list: a number (or a numeric string), a string that
\* is not a number, or null.
Num(v) == [kind |-> "num", val |-> v]

NotANumber == [kind |-> "text", val |-> 0]

NullEntry == [kind |-> "null", val |-> 0]

\* A list-valued field: a native list, a JSON text that decodes to the list,
\* a text json.loads cannot decode, or no value at all.
List(items) == [form |-> "list", items |-> items]

Encoded(items) == [form |-> "text", items |-> items]

Garbled == [form |-> "garbled", items |-> <<>>]

Market(outcomes, prices, closed, resolvedBy) ==
    [found |-> TRUE, outcomes |-> outcomes, outcomePrices |-> prices,
     closed |-> closed, resolvedBy |-> resolvedBy]

YesNo == List(<<"Yes", "No">>)

\* The states of the upstream market the model moves through: trading
\* (lists sent as JSON text), closed with "Yes" at 1.0, resolved by an
\* authority with "No" at 1.0, closed with no price at the threshold, and
\* closed with a price entry that is not a number.
Feeds ==
    { Market(YesNo, Encoded(<<Num(55), Num(45)>>), FALSE, None),
      Market(YesNo, List(<<Num(100), Num(0)>>), TRUE, None),
      Market(YesNo, List(<<Num(0), Num(100)>>), FALSE, "0xabc"),
      Market(YesNo, List(<<Num(55), Num(45)>>), TRUE, None),
      Market(YesNo, List(<<NotANumber, Num(100)>>), TRUE, None) }

\* Market data out of the ordinary: a price at the threshold while the
\* market still trades; a price list longer than the outcome list, while
\* trading and when closed with the surplus price at 1.0; a null price
\* entry; a price list json.loads cannot decode; a price entry that is not
\* a number, while trading and when closed with no price at the threshold;
\* a closed market with a single outcome, the winner.
OddFeeds ==
    { Market(YesNo, List(<<Num(99), Num(1)>>), FALSE, None),
      Market(List(<<"Yes">>), List(<<Num(100)>>), TRUE, None),
      Market(List(<<"Yes">>), List(<<Num(55), Num(45)>>), FALSE, None),
      Market(List(<<"Yes">>), List(<<Num(0), Num(100)>>), TRUE, None),
      Market(YesNo, List(<<NullEntry, Num(45)>>), FALSE, None),
      Market(YesNo, Garbled, FALSE, None),
      Market(YesNo, List(<<NotANumber, Num(45)>>), FALSE, None),
      Market(YesNo, List(<<Num(55), NotANumber>>), TRUE, None) }

InitialFeed == Market(YesNo, List(<<Num(40), Num(60)>>), FALSE, None)

\* get_market (src/polymarket.py): the market as the API holds it, or None
\* when the request fails.
Absent ==
    [found |-> FALSE, outcomes |-> Garbled, outcomePrices |-> Garbled,
     closed |-> FALSE, resolvedBy |-> None]

GetMarket(upstream, reachable) == IF reachable THEN upstream ELSE Absent

\* What the API holds for a market id: `upstream` for "m1", and for "m2" a
\* market closed long ago whose first price entry is not a number.
SecondMarket == Market(YesNo, List(<<NotANumber, Num(100)>>), TRUE, None)

MarketOf(market_id, upstream) ==
    IF market_id = "m2" THEN SecondMarket ELSE upstream

\* The upstream market changes between two calls on the ledger.
FeedChanges ==
    /\ \E m \in Feeds : m # feed /\ feed' = m
    /\ UNCHANGED <<balance, bets, stored, file, clock, call, ret, saves,
                   wrote, lookups, deposits, shown, other>>

----------------------------------------------------------------------------
(* Persistence *)

Snapshot(b, bs) == [balance |-> b, bets |-> bs]

\* save_data: the whole snapshot replaces the file content.
SaveData(b, bs) == Snapshot(b, bs)

\* How the write of lines 29-33 can end: the document is written in full;
\* open() raises and the file is not touched; open(..., 'w') has emptied the
\* file and the write raises before the document is complete.
DiskOutcomes == {"written", "refused", "truncated"}

\* A slip of the write: nothing reaches the file.
WriteFileNowhere(fl, st, b, bs, disk) == [file |-> fl, stored |-> st]

\* Lines 27-35 on a file in condition fl holding st.  The exception of a
\* failed write is caught and printed, so the caller sees none of this.
WriteFile(fl, st, b, bs, disk) ==
    CASE disk = "written" -> [file |-> "ok", stored |-> SaveData(b, bs)]
      [] disk = "refused" -> [file |-> fl, stored |-> st]
      [] OTHER -> [file |-> "corrupt", stored |-> st]

\* json.dump: numbers, strings and None become JSON numbers, strings and
\* null.  A date is written as the text of its reading.
JsonNumber(n) == [json |-> "number", n |-> n]

JsonString(s) == [json |-> "string", s |-> s]

JsonNull == [json |-> "null"]

DumpOptional(x) == IF x = None THEN JsonNull ELSE JsonString(x)

DumpTimestamp(t) == IF t = <<>> THEN JsonNull ELSE JsonString(t[1])

DumpBet(bet) ==
    [id |-> JsonNumber(bet.id),
     date |-> JsonString(bet.date),
     event |-> JsonString(bet.event),
     market |-> JsonString(bet.market),
     market_id |-> DumpOptional(bet.market_id),
     outcome |-> JsonString(bet.outcome),
     amount |-> JsonNumber(bet.amount),
     price |-> JsonNumber(bet.price),
     current_price |-> JsonNumber(bet.current_price),
     potential_payout |-> JsonNumber(bet.potential_payout),
     status |-> JsonString(bet.status),
     result_checked_at |-> DumpTimestamp(bet.result_checked_at)]

\* Lines 30-33: the document json.dump writes for a snapshot.
JsonDump(snapshot) ==
    [balance |-> JsonNumber(snapshot.balance),
     bets |-> [i \in 1..Len(snapshot.bets) |-> DumpBet(snapshot.bets[i])]]

\* A slip of the reader: null comes back as a text.
LoadOptionalAsText(j) == IF j.json = "null" THEN "null" ELSE j.s

\* json.load: the Python value of a JSON value.
LoadOptional(j) == IF j.json = "null" THEN None ELSE j.s

LoadTimestamp(j) == IF j.json = "null" THEN <<>> ELSE <<j.s>>

LoadBet(j) ==
    [id |-> j.id.n,
     date |-> j.date.s,
     event |-> j.event.s,
     market |-> j.market.s,
     market_id |-> LoadOptional(j.market_id),
     outcome |-> j.outcome.s,
     amount |-> j.amount.n,
     price |-> j.price.n,
     current_price |-> j.current_price.n,
     potential_payout |-> j.potential_payout.n,
     status |-> j.status.s,
     result_checked_at |-> LoadTimestamp(j.result_checked_at)]

JsonLoad(doc) ==
    [balance |-> doc.balance.n,
     bets |-> [i \in 1..Len(doc.bets) |-> LoadBet(doc.bets[i])]]

\* A slip of the fallback: a file that cannot be read leaves an empty wallet.
LoadDataEmptyWallet(fl, st) ==
    IF fl = "ok"
    THEN LET data == JsonLoad(JsonDump(st))
         IN  Snapshot(data.balance, data.bets)
    ELSE Snapshot(0, <<>>)

\* Lines 9-25 and JsonStorage.load: what a new object holds after reading
\* the file in condition fl, whose text is the document of st.  A missing
\* file and a file json.load cannot read both leave the defaults.
LoadData(fl, st) ==
    IF fl = "ok"
    THEN LET data == JsonLoad(JsonDump(st))
         IN  Snapshot(data.balance, data.bets)
    ELSE Snapshot(InitialBalance, <<>>)

----------------------------------------------------------------------------
(* place_bet *)

PotentialPayout(amount, price) ==
    IF price > 0 THEN (amount * 100) \div price ELSE 0

\* A slip of the creation: current_price starts at 0.
NewBetUnpriced(n, now, outcome, amount, price, market_id) ==
    [id |-> n + 1,
     date |-> now,
     event |-> EventTitle,
     market |-> MarketQuestion,
     market_id |-> market_id,
     outcome |-> outcome,
     amount |-> amount,
     price |-> price,
     current_price |-> 0,
     potential_payout |-> PotentialPayout(amount, price),
     status |-> "OPEN",
     result_checked_at |-> <<>>]

\* A slip of the numbering: ids counted from 0.
NewBetZeroBased(n, now, outcome, amount, price, market_id) ==
    [id |-> n,
     date |-> now,
     event |-> EventTitle,
     market |-> MarketQuestion,
     market_id |-> market_id,
     outcome |-> outcome,
     amount |-> amount,
     price |-> price,
     current_price |-> price,
     potential_payout |-> PotentialPayout(amount, price),
     status |-> "OPEN",
     result_checked_at |-> <<>>]

\* Lines 42-55.
NewBet(n, now, outcome, amount, price, market_id) ==
    [id |-> n + 1,
     date |-> now,
     event |-> EventTitle,
     market |-> MarketQuestion,
     market_id |-> market_id,
     outcome |-> outcome,
     amount |-> amount,
     price |-> price,
     current_price |-> price,
     potential_payout |-> PotentialPayout(amount, price),
     status |-> "OPEN",
     result_checked_at |-> <<>>]

\* Slips of the funds check: the boundary excluded, and the check made
\* against the opening balance.
InsufficientFundsAtBoundary(amount, bal) == amount >= bal

InsufficientFundsAgainstOpening(amount, bal) == amount > InitialBalance

\* Line 38.
InsufficientFunds(amount, bal) == amount > bal

Returned(ok, msg, count) ==
    [ok |-> ok, msg |-> msg, count |-> count, raised |-> None]

Raised(exc) == [ok |-> FALSE, msg |-> "", count |-> 0, raised |-> exc]

\* The call as recorded: its name and, for place_bet, the stake asked for.
Call(op, amount) == [op |-> op, amount |-> amount]

\* Lines 37-58, called with args = <<outcome, amount, price, market_id>>,
\* the write of line 57 ending as `disk` says.
PlaceBetOnDisk(args, disk) ==
    LET outcome == args[1]
        amount == args[2]
        price == args[3]
        market_id == args[4]
    IN  /\ call' = Call("place_bet", amount)
        /\ lookups' = <<>>
        /\ UNCHANGED <<feed, deposits, shown, other>>
        /\ IF InsufficientFunds(amount, balance)
           THEN /\ ret' = Returned(FALSE, "Insufficient funds", 0)
                /\ saves' = 0
                /\ wrote' = "none"
                /\ UNCHANGED <<balance, bets, stored, file, clock>>
           ELSE /\ Len(bets) < MaxBets
                /\ balance' = balance - amount
                /\ bets' = Append(bets, NewBet(Len(bets), clock + 1, outcome,
                                               amount, price, market_id))
                /\ clock' = clock + 1
                /\ LET w == WriteFile(file, stored, balance', bets', disk)
                   IN  /\ stored' = w.stored
                       /\ file' = w.file
                /\ saves' = 1
                /\ wrote' = disk
                /\ ret' = Returned(TRUE, "Bet placed successfully", 0)

\* place_bet when the write succeeds.
PlaceBetWith(args) == PlaceBetOnDisk(args, "written")

PlaceBet == \E args \in BetArgs : PlaceBetWith(args)

\* place_bet as the manual bet form of src/app.py calls it: a positive
\* stake at a price in (0, 1].
PlaceValidBet == \E args \in ValidBetArgs : PlaceBetWith(args)

----------------------------------------------------------------------------
(* update_results *)

\* json.loads applied when the field is a string: a decodable text becomes
\* the list, an undecodable one is left as it is (the except: pass).
Decode(field) ==
    IF field.form = "text" THEN List(field.items) ELSE field

IsList(field) == field.form = "list"

\* A slip of the search: a label that is not found counts as the first.
IndexOfOrFirst(items, x) ==
    IF \E i \in 1..Len(items) : items[i] = x
    THEN CHOOSE i \in 1..Len(items) :
            /\ items[i] = x
            /\ \A j \in 1..(i - 1) : items[j] # x
    ELSE 1

\* list.index: the position (from 1) of the first element equal to x, and
\* 0 where Python raises ValueError.
IndexOf(items, x) ==
    IF \E i \in 1..Len(items) : items[i] = x
    THEN CHOOSE i \in 1..Len(items) :
            /\ items[i] = x
            /\ \A j \in 1..(i - 1) : items[j] # x
    ELSE 0

\* float(entry): the number, or the exception float raises.
Float(entry) ==
    CASE entry.kind = "num" -> [exc |-> None, val |-> entry.val]
      [] entry.kind = "text" -> [exc |-> "ValueError", val |-> 0]
      [] OTHER -> [exc |-> "TypeError", val |-> 0]

\* A slip of the price step: the bet is counted whenever a price is read.
MarkToMarketCountingAlways(bet, market) ==
    LET prices == Decode(market.outcomePrices)
        outcomes == Decode(market.outcomes)
        idx == IndexOf(outcomes.items, bet.outcome)
        new == Float(prices.items[idx])
        same == [bet |-> bet, count |-> 0, exc |-> None]
    IN  IF ~(IsList(prices) /\ IsList(outcomes)) THEN same
        ELSE IF idx = 0 THEN same
        ELSE IF idx > Len(prices.items) THEN same
        ELSE IF new.exc = "ValueError" THEN same
        ELSE IF new.exc # None THEN [same EXCEPT !.exc = new.exc]
        ELSE [bet |-> [bet EXCEPT !.current_price = new.val],
              count |-> 1, exc |-> None]

\* Lines 95-104: the mark-to-market step on one bet.  ValueError (label not
\* found, non-numeric text) is caught; any other exception leaves the step.
MarkToMarket(bet, market) ==
    LET prices == Decode(market.outcomePrices)
        outcomes == Decode(market.outcomes)
        idx == IndexOf(outcomes.items, bet.outcome)
        new == Float(prices.items[idx])
        same == [bet |-> bet, count |-> 0, exc |-> None]
    IN  IF ~(IsList(prices) /\ IsList(outcomes)) THEN same
        ELSE IF idx = 0 THEN same
        ELSE IF idx > Len(prices.items) THEN same
        ELSE IF new.exc = "ValueError" THEN same
        ELSE IF new.exc # None THEN [same EXCEPT !.exc = new.exc]
        ELSE IF bet.current_price # new.val
             THEN [bet |-> [bet EXCEPT !.current_price = new.val],
                   count |-> 1, exc |-> None]
             ELSE same

\* Lines 133-138: the loop looking for the first price >= 0.99, from entry i
\* on.  winner is None when the loop ends without one.  Labels are non-empty
\* strings, so the truth test of line 140 is the test against None.
RECURSIVE WinningOutcome(_, _, _)
WinningOutcome(prices, outcomes, i) ==
    IF i > Len(prices) THEN [winner |-> None, exc |-> None]
    ELSE LET price == Float(prices[i])
         IN  IF price.exc # None THEN [winner |-> None, exc |-> price.exc]
             ELSE IF price.val >= WinThreshold
                  THEN IF i > Len(outcomes)
                       THEN [winner |-> None, exc |-> "IndexError"]
                       ELSE [winner |-> outcomes[i], exc |-> None]
                  ELSE WinningOutcome(prices, outcomes, i + 1)

\* A slip of the resolution test: every market counts as resolved.
IsResolvedAnyway(market) == TRUE

\* Line 107.
IsResolved(market) == market.closed \/ market.resolvedBy # None

\* A slip of the settlement: result_checked_at is not set.
SettleWithoutTimestamp(bet, winner, now) ==
    IF bet.outcome = winner
    THEN [bet |-> [bet EXCEPT !.status = "WON"],
          credit |-> bet.potential_payout, count |-> 1, ticks |-> 1,
          exc |-> None]
    ELSE [bet |-> [bet EXCEPT !.status = "LOST"],
          credit |-> 0, count |-> 1, ticks |-> 1, exc |-> None]

\* A slip of the settlement: the payout is credited whoever won.
SettleCreditingLosers(bet, winner, now) ==
    [bet |-> [bet EXCEPT !.result_checked_at = <<now>>,
                         !.status = IF bet.outcome = winner
                                    THEN "WON" ELSE "LOST"],
     credit |-> bet.potential_payout, count |-> 1, ticks |-> 1, exc |-> None]

\* A slip of the settlement: a lost bet has its payout cleared.
SettleClearingPayout(bet, winner, now) ==
    IF bet.outcome = winner
    THEN [bet |-> [bet EXCEPT !.result_checked_at = <<now>>,
                              !.status = "WON"],
          credit |-> bet.potential_payout, count |-> 1, ticks |-> 1,
          exc |-> None]
    ELSE [bet |-> [bet EXCEPT !.result_checked_at = <<now>>,
                              !.status = "LOST",
                              !.potential_payout = 0],
          credit |-> 0, count |-> 1, ticks |-> 1, exc |-> None]

\* A slip of the settlement: the stake is credited in place of the payout.
SettleCreditingStake(bet, winner, now) ==
    IF bet.outcome = winner
    THEN [bet |-> [bet EXCEPT !.result_checked_at = <<now>>,
                              !.status = "WON"],
          credit |-> bet.amount, count |-> 1, ticks |-> 1, exc |-> None]
    ELSE [bet |-> [bet EXCEPT !.result_checked_at = <<now>>,
                              !.status = "LOST"],
          credit |-> 0, count |-> 1, ticks |-> 1, exc |-> None]

\* Lines 140-148: a winner was found; the bet is settled at time `now`.
Settle(bet, winner, now) ==
    IF bet.outcome = winner
    THEN [bet |-> [bet EXCEPT !.result_checked_at = <<now>>,
                              !.status = "WON"],
          credit |-> bet.potential_payout, count |-> 1, ticks |-> 1,
          exc |-> None]
    ELSE [bet |-> [bet EXCEPT !.result_checked_at = <<now>>,
                              !.status = "LOST"],
          credit |-> 0, count |-> 1, ticks |-> 1, exc |-> None]

\* Lines 106-148: resolution of one bet, after its mark-to-market step.
Resolve(bet, market, now) ==
    LET prices == Decode(market.outcomePrices)
        outcomes == Decode(market.outcomes)
        w == IF IsList(prices) /\ IsList(outcomes)
             THEN WinningOutcome(prices.items, outcomes.items, 1)
             ELSE [winner |-> None, exc |-> None]
        same == [bet |-> bet, credit |-> 0, count |-> 0, ticks |-> 0,
                 exc |-> None]
    IN  IF ~IsResolved(market) THEN same
        ELSE IF w.exc # None THEN [same EXCEPT !.exc = w.exc]
        ELSE IF w.winner = None THEN same
        ELSE Settle(bet, w.winner, now)

\* A slip of the loop's filter: the market_id test of lines 71-73 left out.
IsLookedUpWithoutMarketId(bet) == bet.status = "OPEN"

\* A slip of the loop's filter: the status test of line 70 left out.
IsLookedUpWhateverStatus(bet) == bet.market_id # None

\* Whether the loop body reaches client.get_market for this bet.
IsLookedUp(bet) == bet.status = "OPEN" /\ bet.market_id # None

\* Lines 70-148: the loop body on bet i of pass state s, the market lookup
\* answering `market`.
ProcessBet(s, i, market) ==
    LET bet == s.bets[i]
        m == MarkToMarket(bet, market)
        r == Resolve(m.bet, market, s.clock + 1)
    IN  IF ~IsLookedUp(bet) THEN s
        ELSE IF ~market.found
             THEN [s EXCEPT !.asked[i] = "failed"]
        ELSE IF m.exc # None
             THEN [s EXCEPT !.asked[i] = "answered", !.exc = m.exc]
        ELSE IF r.exc # None
             THEN [s EXCEPT !.asked[i] = "answered",
                            !.bets[i] = m.bet,
                            !.count = s.count + m.count,
                            !.exc = r.exc]
        ELSE [s EXCEPT !.asked[i] = "answered",
                       !.bets[i] = r.bet,
                       !.balance = s.balance + r.credit,
                       !.count = s.count + m.count + r.count,
                       !.clock = s.clock + r.ticks]

\* A slip of the loop: a lookup that returns nothing ends the pass (break
\* in place of continue at line 78).
RECURSIVE RunPassStoppedByFailure(_, _, _, _)
RunPassStoppedByFailure(s, i, upstream, reachable) ==
    IF i > Len(s.bets) \/ s.exc # None THEN s
    ELSE IF i > 1 /\ s.asked[i - 1] = "failed" THEN s
    ELSE RunPassStoppedByFailure(
            ProcessBet(s, i, GetMarket(MarketOf(s.bets[i].market_id, upstream),
                                       reachable[i])),
            i + 1, upstream, reachable)

\* Lines 68-69: the pass over self.bets in list order, stopped by the first
\* exception.  reachable[i] tells whether the request made for bet i gets
\* through.
RECURSIVE RunPass(_, _, _, _)
RunPass(s, i, upstream, reachable) ==
    IF i > Len(s.bets) \/ s.exc # None THEN s
    ELSE RunPass(ProcessBet(s, i,
                            GetMarket(MarketOf(s.bets[i].market_id, upstream),
                                      reachable[i])),
                 i + 1, upstream, reachable)

StartOfPass(bs, bal, clk) ==
    [bets |-> bs, balance |-> bal, count |-> 0, clock |-> clk,
     exc |-> None, asked |-> [i \in 1..Len(bs) |-> "skipped"]]

\* Lines 63-152: what one call leaves behind when made on the ledger
\* (bs, bal) with the file holding st.  An exception leaves the function
\* before the save of line 151.
UpdateOutcome(bs, bal, clk, st, upstream, reachable) ==
    LET s == RunPass(StartOfPass(bs, bal, clk), 1, upstream, reachable)
        saved == s.exc = None /\ s.count > 0
    IN  [bets |-> s.bets,
         balance |-> s.balance,
         clock |-> s.clock,
         lookups |-> s.asked,
         ret |-> IF s.exc # None THEN Raised(s.exc)
                 ELSE Returned(TRUE, "", s.count),
         saves |-> IF saved THEN 1 ELSE 0,
         stored |-> IF saved THEN SaveData(s.balance, s.bets) ELSE st]

\* Which requests of a pass get through; no request is made for a bet the
\* loop skips.
Reachability ==
    { r \in [1..Len(bets) -> BOOLEAN] :
        \A i \in 1..Len(bets) : ~IsLookedUp(bets[i]) => r[i] }

\* update_results, the write of line 151 ending as `disk` says.
UpdateResultsOnDisk(disk) ==
    \E reachable \in Reachability :
        LET o == UpdateOutcome(bets, balance, clock, stored, feed, reachable)
            w == WriteFile(file, stored, balance', bets', disk)
        IN  /\ call' = Call("update_results", 0)
            /\ lookups' = o.lookups
            /\ bets' = o.bets
            /\ balance' = o.balance
            /\ clock' = o.clock
            /\ ret' = o.ret
            /\ saves' = o.saves
            /\ IF o.saves = 1
               THEN /\ stored' = w.stored
                    /\ file' = w.file
                    /\ wrote' = disk
               ELSE /\ wrote' = "none"
                    /\ UNCHANGED <<stored, file>>
            /\ UNCHANGED <<feed, deposits, shown, other>>

\* update_results when the write succeeds.
UpdateResults == UpdateResultsOnDisk("written")

----------------------------------------------------------------------------
(* add_funds, as section 4.2 of the specification describes it; the class *)
(* in src/simulation.py has no such method.                               *)

MaxDeposits == 1

FundAmounts == {-5, 0, 50}

\* A slip of add_funds: the amount is credited without the sign check.
AddFundsUnchecked ==
    \E amount \in FundAmounts :
        /\ deposits < MaxDeposits
        /\ call' = Call("add_funds", amount)
        /\ lookups' = <<>>
        /\ UNCHANGED <<bets, clock, feed, file, shown, other>>
        /\ balance' = balance + amount
        /\ deposits' = deposits + 1
        /\ stored' = SaveData(balance', bets)
        /\ saves' = 1
        /\ wrote' = "written"
        /\ ret' = Returned(TRUE, "", 0)

AddFunds ==
    \E amount \in FundAmounts :
        /\ call' = Call("add_funds", amount)
        /\ lookups' = <<>>
        /\ UNCHANGED <<bets, clock, feed, file, shown, other>>
        /\ IF amount <= 0
           THEN /\ ret' = Returned(FALSE, "Amount must be positive.", 0)
                /\ saves' = 0
                /\ wrote' = "none"
                /\ UNCHANGED <<balance, stored, deposits>>
           ELSE /\ deposits < MaxDeposits
                /\ balance' = balance + amount
                /\ deposits' = deposits + 1
                /\ stored' = SaveData(balance', bets)
                /\ saves' = 1
                /\ wrote' = "written"
                /\ ret' = Returned(TRUE, "", 0)

----------------------------------------------------------------------------
(* The constructor, get_portfolio, and a second object on the same file *)

\* Lines 7-25: the process starts again and builds a new BettingSimulator
\* on the data file.  Only a missing file makes load_data call save_data.
Restart ==
    \E disk \in DiskOutcomes :
        LET data == LoadData(file, stored)
            w == WriteFile(file, stored, balance', bets', disk)
        IN  /\ call' = Call("init", 0)
            /\ ret' = Returned(TRUE, "", 0)
            /\ lookups' = <<>>
            /\ balance' = data.balance
            /\ bets' = data.bets
            /\ IF file = "missing"
               THEN /\ stored' = w.stored
                    /\ file' = w.file
                    /\ saves' = 1
                    /\ wrote' = disk
               ELSE /\ saves' = 0
                    /\ wrote' = "none"
                    /\ UNCHANGED <<stored, file>>
            /\ UNCHANGED <<clock, feed, deposits, shown, other>>

\* A slip of the sort: reverse=True left out, the earlier bet goes first.
InsertByDateAscending(sorted, bet) ==
    LET before == { k \in 1..Len(sorted) : sorted[k].date <= bet.date }
        n == Cardinality(before)
    IN  SubSeq(sorted, 1, n) \o <<bet>> \o SubSeq(sorted, n + 1, Len(sorted))

\* The place of one more bet in a list already sorted by date, latest
\* first: behind every bet dated the same or later, so that bets of equal
\* date keep the order they had (sorted is stable, also with reverse=True).
InsertByDate(sorted, bet) ==
    LET before == { k \in 1..Len(sorted) : sorted[k].date >= bet.date }
        n == Cardinality(before)
    IN  SubSeq(sorted, 1, n) \o <<bet>> \o SubSeq(sorted, n + 1, Len(sorted))

\* Line 61: sorted(self.bets, key=lambda x: x['date'], reverse=True).
RECURSIVE SortedByDate(_)
SortedByDate(bs) ==
    IF bs = <<>> THEN <<>>
    ELSE InsertByDate(SortedByDate(SubSeq(bs, 1, Len(bs) - 1)), bs[Len(bs)])

\* Lines 60-61.
GetPortfolio ==
    /\ call' = Call("get_portfolio", 0)
    /\ ret' = Returned(TRUE, "", 0)
    /\ lookups' = <<>>
    /\ saves' = 0
    /\ wrote' = "none"
    /\ shown' = SortedByDate(bets)
    /\ UNCHANGED <<balance, bets, stored, file, clock, feed, deposits, other>>

\* The wall clock datetime.now() reads is set back between two calls.
ClockSetBack ==
    /\ clock > 0
    /\ clock' = clock - 1
    /\ UNCHANGED <<balance, bets, stored, file, call, ret, saves, wrote,
                   lookups, feed, deposits, shown>>
    /\ UNCHANGED other

\* A slip of the second object: it reads the file again before it places
\* the bet.
OtherPlacesBetOnFreshState ==
    \E args \in ValidBetArgs :
        LET mine == LoadData(file, stored)
        IN  /\ ~InsufficientFunds(args[2], mine.balance)
            /\ Len(mine.bets) < MaxBets
            /\ other' = Snapshot(mine.balance - args[2],
                                 Append(mine.bets,
                                        NewBet(Len(mine.bets), clock + 1,
                                               args[1], args[2], args[3],
                                               args[4])))
            /\ clock' = clock + 1
            /\ stored' = SaveData(other'.balance, other'.bets)
            /\ file' = "ok"
            /\ UNCHANGED <<balance, bets, call, ret, saves, wrote, lookups,
                           feed, deposits, shown>>

\* Lines 37-58 run by the second object, on the balance and the bets it
\* holds in memory, when the funds suffice and the write succeeds.  call
\* and ret keep what the first object did last.
OtherPlacesBet ==
    \E args \in ValidBetArgs :
        /\ ~InsufficientFunds(args[2], other.balance)
        /\ Len(other.bets) < MaxBets
        /\ other' = Snapshot(other.balance - args[2],
                             Append(other.bets,
                                    NewBet(Len(other.bets), clock + 1,
                                           args[1], args[2], args[3],
                                           args[4])))
        /\ clock' = clock + 1
        /\ stored' = SaveData(other'.balance, other'.bets)
        /\ file' = "ok"
        /\ UNCHANGED <<balance, bets, call, ret, saves, wrote, lookups, feed,
                       deposits, shown>>

----------------------------------------------------------------------------

\* BettingSimulator() on a profile with no data file: the defaults are kept
\* and load_data writes them out.
Init ==
    /\ balance = InitialBalance
    /\ bets = <<>>
    /\ stored = SaveData(InitialBalance, <<>>)
    /\ clock = 0
    /\ call = Call("init", 0)
    /\ ret = Returned(TRUE, "", 0)
    /\ saves = 1
    /\ lookups = <<>>
    /\ feed = InitialFeed
    /\ deposits = 0
    /\ file = "ok"
    /\ wrote = "written"
    /\ shown = <<>>
    /\ other = Snapshot(InitialBalance, <<>>)

Next ==
    \/ PlaceBet
    \/ UpdateResults
    \/ FeedChanges

Spec == Init /\ [][Next]_vars

\* The ledger when every bet is placed with a positive stake at a price in
\* (0, 1].
NextValidBets ==
    \/ PlaceValidBet
    \/ UpdateResults
    \/ FeedChanges

SpecValidBets == Init /\ [][NextValidBets]_vars

\* The ledger with add_funds among its operations, against an upstream
\* market that stays in one of its states.
InitWithFunds ==
    /\ balance = InitialBalance
    /\ bets = <<>>
    /\ stored = SaveData(InitialBalance, <<>>)
    /\ clock = 0
    /\ call = Call("init", 0)
    /\ ret = Returned(TRUE, "", 0)
    /\ saves = 1
    /\ lookups = <<>>
    /\ feed \in Feeds
    /\ deposits = 0
    /\ file = "ok"
    /\ wrote = "written"
    /\ shown = <<>>
    /\ other = Snapshot(InitialBalance, <<>>)

NextWithFunds ==
    \/ PlaceBet
    \/ UpdateResults
    \/ AddFunds

SpecWithFunds == InitWithFunds /\ [][NextWithFunds]_vars

\* The ledger on a disk whose writes can fail, the process starting again
\* at any time, against an upstream market that stays in one of its states.
\* The first construction finds no file, and its own write
\* can fail as any other.
InitOnDisk ==
    /\ balance = InitialBalance
    /\ bets = <<>>
    /\ \E disk \in DiskOutcomes :
          LET w == WriteFile("missing", Snapshot(InitialBalance, <<>>),
                             InitialBalance, <<>>, disk)
          IN  /\ stored = w.stored
              /\ file = w.file
              /\ wrote = disk
    /\ clock = 0
    /\ call = Call("init", 0)
    /\ ret = Returned(TRUE, "", 0)
    /\ saves = 1
    /\ lookups = <<>>
    /\ feed \in Feeds
    /\ deposits = 0
    /\ shown = <<>>
    /\ other = Snapshot(InitialBalance, <<>>)

\* The clock readings a run on the failing disk goes through.
MaxClock == 3

NextOnDisk ==
    \/ \E args \in ValidBetArgs, disk \in DiskOutcomes :
          clock < MaxClock /\ PlaceBetOnDisk(args, disk)
    \/ \E disk \in DiskOutcomes :
          clock < MaxClock /\ UpdateResultsOnDisk(disk)
    \/ Restart

SpecOnDisk == InitOnDisk /\ [][NextOnDisk]_vars

\* The ledger against an upstream market that stays in one of its states,
\* those out of the ordinary included.
InitOddFeeds ==
    /\ balance = InitialBalance
    /\ bets = <<>>
    /\ stored = SaveData(InitialBalance, <<>>)
    /\ file = "ok"
    /\ clock = 0
    /\ call = Call("init", 0)
    /\ ret = Returned(TRUE, "", 0)
    /\ saves = 1
    /\ wrote = "written"
    /\ lookups = <<>>
    /\ feed \in Feeds \cup OddFeeds
    /\ deposits = 0
    /\ shown = <<>>
    /\ other = Snapshot(InitialBalance, <<>>)

NextOddFeeds ==
    \/ PlaceValidBet
    \/ UpdateResults

SpecOddFeeds == InitOddFeeds /\ [][NextOddFeeds]_vars

\* The ledger shown to the user, on a machine whose clock can be set back.
NextPortfolio ==
    \/ PlaceValidBet
    \/ UpdateResults
    \/ GetPortfolio
    \/ ClockSetBack

SpecPortfolio == InitWithFunds /\ [][NextPortfolio]_vars

\* The page of src/app.py polling: update_results, then get_portfolio, again
\* and again, with bets on two markets.  The page is drawn for ever, and
\* again and again a pass is made in which every request gets through.
PollingBetArgs ==
    { <<"Yes", 100, 40, "m1">>,
      <<"Yes", 100, 40, "m2">> }

PlacePollingBet == \E args \in PollingBetArgs : PlaceBetWith(args)

PollGetsThrough ==
    /\ UpdateResults
    /\ \A i \in 1..Len(bets) : lookups'[i] # "failed"

NextPolling ==
    \/ PlacePollingBet
    \/ UpdateResults
    \/ GetPortfolio
    \/ FeedChanges

SpecPolling ==
    /\ Init
    /\ [][NextPolling]_vars
    /\ WF_vars(GetPortfolio)
    /\ []<><<PollGetsThrough>>_vars

\* Two objects built on the same profile, each holding what it loaded.
NextTwoLedgers ==
    \/ PlaceValidBet
    \/ OtherPlacesBet
    \/ UpdateResults

SpecTwoLedgers == InitWithFunds /\ [][NextTwoLedgers]_vars

----------------------------------------------------------------------------
(* Properties *)

IsPlaceBetStep == call'.op = "place_bet" /\ feed' = feed

IsUpdateStep == call'.op = "update_results" /\ feed' = feed

IsTerminal(bet) == bet.status \in {"WON", "LOST"}

\* The sum of f[i] over the indices i of S.
RECURSIVE SumOver(_, _)
SumOver(f, S) ==
    IF S = {} THEN 0
    ELSE LET i == CHOOSE x \in S : TRUE
         IN  f[i] + SumOver(f, S \ {i})

\* C1: a place_bet call whose amount is at most the balance succeeds and
\* leaves balance - amount; one whose amount exceeds the balance reports
\* failure and leaves the balance as it was.
C1_PlaceBetDebitsIffCovered ==
    [][IsPlaceBetStep =>
        IF call'.amount <= balance
        THEN ret'.ok /\ balance' = balance - call'.amount
        ELSE ~ret'.ok /\ balance' = balance]_vars

\* A bet that took the whole balance has just been placed.
C1_Witness ==
    /\ call.op = "place_bet"
    /\ ret.ok
    /\ balance = 0
    /\ Len(bets) = 2

\* C2: the balance is never negative, in memory or in the file.
C2_BalanceNeverNegative == balance >= 0 /\ stored.balance >= 0

\* C3: a status changes only from OPEN to WON or LOST; a bet that is WON or
\* LOST keeps its status, current_price and result_checked_at in every
\* later step, is not looked up by a later update_results pass, and the
\* pass credits the payouts of the bets it moved from OPEN to WON and
\* nothing else.
C3_StatusSettlesOnce ==
    [][/\ Len(bets') >= Len(bets)
       /\ \A i \in 1..Len(bets) :
            /\ bets'[i].status # bets[i].status =>
                    bets[i].status = "OPEN" /\ IsTerminal(bets'[i])
            /\ IsTerminal(bets[i]) =>
                    /\ bets'[i].status = bets[i].status
                    /\ bets'[i].current_price = bets[i].current_price
                    /\ bets'[i].result_checked_at = bets[i].result_checked_at
                    /\ IsUpdateStep => lookups'[i] = "skipped"
       /\ IsUpdateStep =>
            balance' = balance +
                SumOver([i \in 1..Len(bets) |-> bets[i].potential_payout],
                        {i \in 1..Len(bets) :
                            bets[i].status = "OPEN" /\ bets'[i].status = "WON"})
      ]_vars

\* A pass has looked up a bet placed after another bet was settled, and
\* has skipped the settled one.
C3_Witness ==
    /\ call.op = "update_results"
    /\ \E i, j \in 1..Len(bets) :
        /\ IsTerminal(bets[i])
        /\ bets[i].result_checked_at[1] < bets[j].date
        /\ lookups[i] = "skipped"
        /\ lookups[j] = "answered"

\* The items of a list field, native or sent as JSON text.
ItemsOf(field) == IF field.form \in {"list", "text"} THEN field.items ELSE <<>>

\* The positions of a price list that hold the first price >= 0.99 and have
\* a label paired with them.
WinnerPositions(market) ==
    LET prices == ItemsOf(market.outcomePrices)
        labels == ItemsOf(market.outcomes)
    IN  { k \in 1..Len(prices) :
            /\ k <= Len(labels)
            /\ \A j \in 1..k : prices[j].kind = "num"
            /\ prices[k].val >= WinThreshold
            /\ \A j \in 1..(k - 1) : prices[j].val < WinThreshold }

\* The pass that has just ended settled bet i or left it for good reason:
\* it was OPEN, its market was fetched, is resolved and has a winner, and
\* no exception ended the pass on this bet.
SettledInStep(i) ==
    /\ bets[i].status = "OPEN"
    /\ lookups'[i] = "answered"
    /\ ~(ret'.raised # None /\ \A j \in (i + 1)..Len(bets) : lookups'[j] = "skipped")
    /\ feed.closed \/ feed.resolvedBy # None
    /\ WinnerPositions(feed) # {}

\* C4: an OPEN bet processed against a resolved market with a winner (the
\* label of the first price >= 0.99) becomes WON when its outcome is the
\* winner and LOST otherwise, and the balance grows by the payouts of the
\* bets that became WON and by nothing else.
C4_SettlementFollowsWinner ==
    [][IsUpdateStep =>
        LET labels == ItemsOf(feed.outcomes)
            winner == labels[CHOOSE k \in WinnerPositions(feed) : TRUE]
            settled == {i \in 1..Len(bets) : SettledInStep(i)}
            won == {i \in settled : bets[i].outcome = winner}
        IN  /\ \A i \in won : bets'[i].status = "WON"
            /\ \A i \in settled \ won : bets'[i].status = "LOST"
            /\ balance' = balance +
                    SumOver([i \in 1..Len(bets) |-> bets[i].potential_payout],
                            won)
      ]_vars

\* One pass has settled a bet as WON and another as LOST.
C4_Witness ==
    /\ call.op = "update_results"
    /\ \E i, j \in 1..Len(bets) :
        /\ bets[i].status = "WON" /\ lookups[i] = "answered"
        /\ bets[j].status = "LOST" /\ lookups[j] = "answered"
        /\ balance = InitialBalance - bets[i].amount - bets[j].amount
                        + bets[i].potential_payout

\* Two calls in a row from the current ledger, the upstream market and the
\* fate of the requests being the same in both.
TwoPasses(up) ==
    LET reachable == [i \in 1..Len(bets) |-> up]
        first == UpdateOutcome(bets, balance, clock, stored, feed, reachable)
        second == UpdateOutcome(first.bets, first.balance, first.clock,
                                first.stored, feed, reachable)
    IN  [first |-> first, second |-> second]

\* C5: of two update_results calls in succession answered with the same
\* market data, the second returns 0, changes no bet and no balance and
\* does not save.
C5_SecondPassIsNoOp ==
    \A up \in BOOLEAN :
        LET two == TwoPasses(up)
        IN  /\ two.second.ret = Returned(TRUE, "", 0)
            /\ two.second.bets = two.first.bets
            /\ two.second.balance = two.first.balance
            /\ two.second.saves = 0
            /\ two.second.stored = two.first.stored

\* C6: update_results returns the number of bets the pass changed, a bet
\* counting once however many of its fields changed.
C6_CountIsNumberOfMutatedBets ==
    [][IsUpdateStep /\ ret'.raised = None =>
        ret'.count = Cardinality({i \in 1..Len(bets) : bets'[i] # bets[i]})
      ]_vars

\* C7: every bet's potential_payout is amount / price, and no step changes
\* the potential_payout, the price or the amount of a bet.
C7_PayoutIsAmountOverPrice ==
    [][\A i \in 1..Len(bets') :
        /\ bets'[i].potential_payout * bets'[i].price = bets'[i].amount * 100
        /\ i <= Len(bets) =>
            /\ bets'[i].potential_payout = bets[i].potential_payout
            /\ bets'[i].price = bets[i].price
            /\ bets'[i].amount = bets[i].amount
      ]_vars

\* C8: place_bet with an amount above the balance returns
\* (False, "Insufficient funds") and changes nothing: the bets, the
\* balance and the file are as before and no save is made.
C8_InsufficientFundsChangesNothing ==
    [][IsPlaceBetStep /\ call'.amount > balance =>
        /\ ret' = Returned(FALSE, "Insufficient funds", 0)
        /\ bets' = bets
        /\ balance' = balance
        /\ stored' = stored
        /\ saves' = 0
      ]_vars

\* A place_bet call has just been refused on a ledger that holds a bet.
C8_Witness ==
    /\ call.op = "place_bet"
    /\ call.amount > balance
    /\ ret = Returned(FALSE, "Insufficient funds", 0)
    /\ saves = 0
    /\ Len(bets) = 1

\* C9: every bet in the ledger has amount > 0 and 0 < price <= 1.
C9_BetsHaveValidStakeAndPrice ==
    \A i \in 1..Len(bets) :
        /\ bets[i].amount > 0
        /\ bets[i].price > 0
        /\ bets[i].price <= 100

\* C10: add_funds with amount <= 0 returns (false, "Amount must be
\* positive.") and changes neither balance, bets nor file; with amount > 0
\* it adds exactly amount to the balance, leaves the bets alone and writes
\* the snapshot.
C10_AddFunds ==
    [][call'.op = "add_funds" /\ feed' = feed =>
        /\ bets' = bets
        /\ IF call'.amount <= 0
           THEN /\ ret' = Returned(FALSE, "Amount must be positive.", 0)
                /\ balance' = balance
                /\ stored' = stored
                /\ saves' = 0
           ELSE /\ ret'.ok
                /\ balance' = balance + call'.amount
                /\ stored' = Snapshot(balance', bets')
                /\ saves' = 1
      ]_vars

\* Funds have been added to a ledger that holds a settled bet.
C10_Witness ==
    /\ call.op = "add_funds"
    /\ ret.ok
    /\ deposits = 1
    /\ \E i \in 1..Len(bets) : IsTerminal(bets[i])
    /\ stored = Snapshot(balance, bets)

----------------------------------------------------------------------------
(* Persistence, the portfolio view, ids and concurrent objects *)

IsRestartStep == call'.op = "init"

\* What a successful place_bet step leaves in the file when its write went
\* through: the debited balance and the list ending with the new bet.
NewBetIsOnFile ==
    /\ file' = "ok"
    /\ stored' = Snapshot(balance', bets')
    /\ stored'.balance = balance - call'.amount
    /\ Len(stored'.bets) = Len(bets) + 1
    /\ stored'.bets[Len(stored'.bets)] = bets'[Len(bets')]

\* C11: whenever place_bet returns success, the snapshot in the data file
\* at the moment of return already holds the debited balance and the newly
\* appended bet.
C11_SavedBeforeSuccessReturns ==
    [][IsPlaceBetStep /\ ret'.ok => NewBetIsOnFile]_vars

\* C11, amended: a place_bet that returns success has called save_data
\* once before returning, and when that write went through the file holds
\* the debited balance and the new bet; place_bet returns success also when
\* the write failed.
C11_SavedBeforeSuccessReturnsIfWritten ==
    [][IsPlaceBetStep /\ ret'.ok =>
          /\ saves' = 1
          /\ wrote' \in DiskOutcomes
          /\ wrote' = "written" => NewBetIsOnFile]_vars

C11_Witness ==
    /\ call.op = "place_bet"
    /\ ret.ok
    /\ wrote = "written"
    /\ file = "ok"
    /\ Len(bets) = 2
    /\ stored = Snapshot(balance, bets)

\* C12: building a ledger on a profile whose file is missing, or whose file
\* cannot be read, raises nothing and leaves exactly the default snapshot:
\* balance 1000.0 and no bets.
C12_LoadFallsBackToDefaults ==
    [][IsRestartStep /\ file \in {"missing", "corrupt"} =>
          /\ ret'.raised = None
          /\ balance' = InitialBalance
          /\ bets' = <<>>
          /\ LoadData(file, stored) = Snapshot(InitialBalance, <<>>)]_vars

C12_Witness ==
    /\ call.op = "init"
    /\ file = "corrupt"
    /\ stored.bets # <<>>
    /\ balance = InitialBalance
    /\ bets = <<>>

\* C13: when the save of a place_bet or update_results call fails, the call
\* raises nothing and returns its normal result, balance and bets in memory
\* are what a successful save would have left, and the file still holds the
\* snapshot it held before the call.
C13_FailedSaveKeepsPreviousSnapshot ==
    [][(IsPlaceBetStep \/ IsUpdateStep)
          /\ wrote' \in {"refused", "truncated"} =>
          /\ ret'.raised = None
          /\ ret'.ok
          /\ IsPlaceBetStep =>
                /\ balance' = balance - call'.amount
                /\ Len(bets') = Len(bets) + 1
          /\ IsUpdateStep =>
                \E reachable \in Reachability :
                    LET o == UpdateOutcome(bets, balance, clock, stored, feed,
                                           reachable)
                    IN  /\ bets' = o.bets
                        /\ balance' = o.balance
                        /\ ret' = o.ret
          /\ file' = file
          /\ stored' = stored]_vars

IsGetPortfolioStep == call'.op = "get_portfolio" /\ clock' = clock

\* The one-to-one maps of 1..n onto itself.
Rearrangements(n) ==
    { p \in [1..n -> 1..n] : \A i, j \in 1..n : p[i] = p[j] => i = j }

\* C15: get_portfolio returns every bet of the ledger exactly once, the
\* latest date first, and changes neither the balance, nor the bets or
\* their order, nor the file.
C15_PortfolioSortedAndReadOnly ==
    [][IsGetPortfolioStep =>
          /\ Len(shown') = Len(bets)
          /\ \E p \in Rearrangements(Len(bets)) :
                \A i \in 1..Len(bets) : shown'[i] = bets[p[i]]
          /\ \A i, j \in 1..Len(shown') :
                i < j => shown'[i].date >= shown'[j].date
          /\ UNCHANGED <<balance, bets, stored, file>>]_vars

C15_Witness ==
    /\ call.op = "get_portfolio"
    /\ Len(bets) = 2
    /\ bets[1].date < bets[2].date
    /\ shown = <<bets[2], bets[1]>>

\* C16: the ids of the bets of a ledger that started empty are 1, 2, 3, ...
\* in list order, whatever failed place_bet calls were made in between, so
\* no two bets share an id.
C16_IdsAreSequential ==
    /\ \A k \in 1..Len(bets) : bets[k].id = k
    /\ \A j, k \in 1..Len(bets) : bets[j].id = bets[k].id => j = k

C16_Witness ==
    /\ Len(bets) = 2
    /\ call.op = "place_bet"
    /\ ~ret.ok
    /\ bets[2].id = 2

\* C17: with two objects on one profile the last writer wins.  A successful
\* place_bet leaves in the file exactly what the object that ran it holds
\* in memory, built on the list that object held before and not on the file,
\* so what the other object wrote meanwhile is gone.
C17_LastWriterWins ==
    [][/\ other' # other =>
             /\ stored' = Snapshot(other'.balance, other'.bets)
             /\ Len(stored'.bets) = Len(other.bets) + 1
             /\ SubSeq(stored'.bets, 1, Len(other.bets)) = other.bets
             /\ stored'.balance
                   = other.balance - stored'.bets[Len(stored'.bets)].amount
       /\ IsPlaceBetStep /\ ret'.ok /\ other' = other =>
             stored' = Snapshot(balance', bets')]_vars

\* Both objects have placed a bet; the file holds the later writer's bet and
\* balance only, and the two bets carry the same id.
C17_Witness ==
    /\ Len(bets) = 1
    /\ Len(other.bets) = 1
    /\ call.op = "place_bet"
    /\ ret.ok
    /\ stored = Snapshot(other.balance, other.bets)
    /\ stored.balance = InitialBalance - other.bets[1].amount
    /\ \A k \in 1..Len(stored.bets) : stored.bets[k] # bets[1]
    /\ bets[1].id = other.bets[1].id

----------------------------------------------------------------------------
(* The reconciliation pass against market data of any shape *)

\* The bets a pass has fetched the market of.
Answered == {i \in 1..Len(bets) : bets[i].status = "OPEN"
                                    /\ lookups'[i] = "answered"}

\* The position of the first label equal to the outcome of the bet, 0 when
\* there is none.
LabelPosition(bet, market) ==
    LET labels == ItemsOf(market.outcomes)
        at == {k \in 1..Len(labels) : labels[k] = bet.outcome}
    IN  IF at = {} THEN 0 ELSE CHOOSE k \in at : \A j \in at : k <= j

\* Whether the market gives a price for the outcome of the bet: both lists
\* are lists, and the label has a numeric entry at its position.
HasPairedPrice(bet, market) ==
    LET prices == ItemsOf(market.outcomePrices)
        k == LabelPosition(bet, market)
    IN  /\ market.outcomePrices.form \in {"list", "text"}
        /\ market.outcomes.form \in {"list", "text"}
        /\ k > 0
        /\ k <= Len(prices)
        /\ prices[k].kind = "num"

PairedPrice(bet, market) ==
    ItemsOf(market.outcomePrices)[LabelPosition(bet, market)].val

\* The market is closed or names who resolved it.
IsOver(market) == market.closed \/ market.resolvedBy # None

\* Some entry of the price list is a number at or above the threshold.
SomePriceAtThreshold(market) ==
    LET prices == ItemsOf(market.outcomePrices)
    IN  \E k \in 1..Len(prices) :
            prices[k].kind = "num" /\ prices[k].val >= WinThreshold

\* C18: update_results raises nothing whatever the shape of the market
\* data: a list that cannot be decoded, a price entry that is null or not
\* a number, more prices than outcomes, an outcome that is no label.
C18_UpdateNeverRaises ==
    call.op = "update_results" => ret.raised = None

\* C19: a pass settles an OPEN bet only if the market it fetched is closed
\* or has a resolvedBy value and some price is at least 0.99.  A fetched
\* bet whose market is not resolved, or has no price at 0.99, stays OPEN
\* with no result_checked_at and brings no credit, and takes the price the
\* market gives for its outcome in that same pass.
C19_SettledOnlyWhenResolvedWithWinner ==
    [][IsUpdateStep =>
        /\ \A i \in 1..Len(bets) :
              bets[i].status = "OPEN" /\ bets'[i].status # "OPEN" =>
                  /\ lookups'[i] = "answered"
                  /\ IsOver(feed)
                  /\ SomePriceAtThreshold(feed)
        /\ ~(IsOver(feed) /\ SomePriceAtThreshold(feed)) =>
              /\ balance' = balance
              /\ \A i \in Answered :
                    /\ bets'[i].status = "OPEN"
                    /\ bets'[i].result_checked_at = <<>>
                    /\ bets'[i].current_price
                          = IF HasPairedPrice(bets[i], feed)
                            THEN PairedPrice(bets[i], feed)
                            ELSE bets[i].current_price
      ]_vars

\* A pass against a market closed with no price at 0.99 has moved the
\* price of a bet and left it OPEN.
C19_Witness ==
    /\ call.op = "update_results"
    /\ feed.closed
    /\ ~SomePriceAtThreshold(feed)
    /\ \E i \in 1..Len(bets) :
          /\ lookups[i] = "answered"
          /\ bets[i].status = "OPEN"
          /\ bets[i].result_checked_at = <<>>
          /\ bets[i].current_price # bets[i].price
          /\ bets[i].current_price = PairedPrice(bets[i], feed)

\* C20: the price step of a pass gives a fetched OPEN bet the price paired
\* with the first label equal to its outcome; a bet whose outcome is no
\* label keeps its current_price and raises nothing; against a market that
\* is not resolved the pass returns the number of bets whose price it
\* changed, and those bets stay OPEN.
C20_MarkToMarket ==
    [][IsUpdateStep =>
        /\ \A i \in Answered :
              /\ HasPairedPrice(bets[i], feed) =>
                    bets'[i].current_price = PairedPrice(bets[i], feed)
              /\ LabelPosition(bets[i], feed) = 0 =>
                    bets'[i].current_price = bets[i].current_price
        /\ ~IsOver(feed) =>
              /\ (\A i \in Answered : LabelPosition(bets[i], feed) = 0) =>
                    ret'.raised = None
              /\ ret'.raised = None =>
                    ret'.count = Cardinality({i \in Answered :
                        bets'[i].current_price # bets[i].current_price})
              /\ \A i \in Answered : bets'[i].status = "OPEN"
      ]_vars

\* A pass against a market that is not resolved has changed the price of
\* one bet and kept the price of another whose outcome is no label, and
\* has returned 1.
C20_Witness ==
    /\ call.op = "update_results"
    /\ ~IsOver(feed)
    /\ ret = Returned(TRUE, "", 1)
    /\ \E i, j \in 1..Len(bets) :
          /\ lookups[i] = "answered"
          /\ lookups[j] = "answered"
          /\ LabelPosition(bets[j], feed) = 0
          /\ bets[j].current_price = bets[j].price
          /\ HasPairedPrice(bets[i], feed)
          /\ bets[i].current_price = PairedPrice(bets[i], feed)
          /\ bets[i].current_price # bets[i].price
          /\ bets[i].status = "OPEN"

----------------------------------------------------------------------------
(* Skipped bets, the batched save, and what a bet keeps for life *)

\* The pass a call made now would run if every request got through.
NextPassAfterStep ==
    UpdateOutcome(bets', balance', clock', stored', feed',
                  [i \in 1..Len(bets') |-> TRUE])

\* C21: a bet whose market lookup returns nothing is left as it was and
\* not counted; the lookup failure ends nothing, every other OPEN bet with a
\* market id is still looked up in that pass and settled when its market
\* has a winner; and the next call looks the skipped bet up again.
C21_FailedLookupSkipsOneBet ==
    [][IsUpdateStep =>
        LET failed == {i \in 1..Len(bets) : lookups'[i] = "failed"}
        IN  /\ \A i \in failed :
                  /\ bets'[i] = bets[i]
                  /\ IsLookedUp(bets'[i])
                  /\ NextPassAfterStep.lookups[i] = "answered"
                        \/ NextPassAfterStep.ret.raised # None
            /\ (failed # {} /\ ret'.raised = None) =>
                  /\ \A j \in 1..Len(bets) :
                        (bets[j].status = "OPEN" /\ bets[j].market_id # None)
                            => lookups'[j] \in {"answered", "failed"}
                  /\ \A j \in 1..Len(bets) :
                        SettledInStep(j) => IsTerminal(bets'[j])
            /\ (failed = {i \in 1..Len(bets) : bets[i].status = "OPEN"
                                                 /\ bets[i].market_id # None}
                 /\ ret'.raised = None) => ret'.count = 0
      ]_vars

\* One lookup of a pass returned nothing; a bet behind it in the list was
\* settled by the same pass.
C21_Witness ==
    /\ call.op = "update_results"
    /\ ret.raised = None
    /\ \E i, j \in 1..Len(bets) :
          /\ i < j
          /\ lookups[i] = "failed"
          /\ bets[i].status = "OPEN"
          /\ lookups[j] = "answered"
          /\ IsTerminal(bets[j])

\* C22: a bet without market_id is never touched by update_results: no
\* lookup is made for it, it is not counted, and it stays OPEN with its
\* entry price as current_price and no result_checked_at.
C22_NoMarketIdNeverTouched ==
    [][\A i \in 1..Len(bets') :
          bets'[i].market_id = None =>
              /\ bets'[i].status = "OPEN"
              /\ bets'[i].current_price = bets'[i].price
              /\ bets'[i].result_checked_at = <<>>
              /\ (IsUpdateStep /\ i <= Len(bets)) =>
                    /\ lookups'[i] = "skipped"
                    /\ bets'[i] = bets[i]
                    /\ (ret'.raised = None
                         /\ \A j \in 1..Len(bets) : bets[j].market_id = None)
                            => ret'.count = 0
      ]_vars

\* A pass has settled a bet and passed over one without market_id, placed
\* before the market closed.
C22_Witness ==
    /\ call.op = "update_results"
    /\ \E i, j \in 1..Len(bets) :
          /\ bets[i].market_id = None
          /\ lookups[i] = "skipped"
          /\ bets[i].status = "OPEN"
          /\ IsTerminal(bets[j])
          /\ bets[i].date < bets[j].result_checked_at[1]

\* C23: an update_results call saves exactly once when it mutated at least
\* one bet, and does not save and leaves the file as it was when it
\* returns 0.
C23_OneSaveWhenMutated ==
    [][IsUpdateStep =>
        LET mutated == {i \in 1..Len(bets) : bets'[i] # bets[i]}
        IN  /\ mutated # {} =>
                  /\ saves' = 1
                  /\ stored' = Snapshot(balance', bets')
            /\ mutated = {} =>
                  /\ saves' = 0
                  /\ stored' = stored
      ]_vars

\* C24: a bet enters the ledger only through a successful place_bet, one
\* at a time, with status OPEN, current_price equal to its entry price and
\* no result_checked_at.
C24_BetsCreatedByPlaceBet ==
    [][Len(bets') # Len(bets) =>
          /\ IsPlaceBetStep
          /\ ret'.ok
          /\ Len(bets') = Len(bets) + 1
          /\ LET new == bets'[Len(bets')]
             IN  /\ new.status = "OPEN"
                 /\ new.current_price = new.price
                 /\ new.result_checked_at = <<>>
                 /\ new.amount = call'.amount
      ]_vars

C24_Witness ==
    /\ call.op = "place_bet"
    /\ ret.ok
    /\ Len(bets) = 2
    /\ bets[1].status # "OPEN"
    /\ bets[2].status = "OPEN"
    /\ bets[2].current_price = bets[2].price

\* The fields of a bet no call changes after its creation.
Fixed(bet) ==
    <<bet.id, bet.date, bet.event, bet.market, bet.market_id, bet.outcome,
      bet.amount, bet.price, bet.potential_payout>>

\* C25: the bet list is append-only.  No step removes or reorders a bet,
\* place_bet leaves every earlier bet as it was, and update_results changes
\* nothing of a bet but current_price, status and result_checked_at.
C25_AppendOnly ==
    [][/\ Len(bets') >= Len(bets)
       /\ \A i \in 1..Len(bets) : Fixed(bets'[i]) = Fixed(bets[i])
       /\ IsPlaceBetStep => \A i \in 1..Len(bets) : bets'[i] = bets[i]
       /\ IsUpdateStep => Len(bets') = Len(bets)
      ]_vars

\* A pass has settled one bet and moved the price of another, two bets
\* being in the ledger in the order they were placed.
C25_Witness ==
    /\ call.op = "update_results"
    /\ Len(bets) = 2
    /\ bets[1].date < bets[2].date
    /\ IsTerminal(bets[1])
    /\ bets[2].current_price # bets[2].price

\* C26: result_checked_at is null exactly while the status is OPEN; it is
\* set in the step that moves the bet to WON or LOST and never changes
\* afterwards.
C26_CheckedAtIffSettled ==
    [][/\ \A i \in 1..Len(bets') :
            bets'[i].result_checked_at = <<>> <=> bets'[i].status = "OPEN"
       /\ \A i \in 1..Len(bets) :
            bets'[i].result_checked_at # bets[i].result_checked_at =>
                /\ IsUpdateStep
                /\ bets[i].status = "OPEN"
                /\ IsTerminal(bets'[i])
                /\ bets[i].result_checked_at = <<>>
      ]_vars

C26_Witness ==
    /\ call.op = "update_results"
    /\ \E i, j \in 1..Len(bets) :
          /\ bets[i].status = "LOST"
          /\ bets[i].result_checked_at # <<>>
          /\ bets[j].status = "OPEN"
          /\ bets[j].result_checked_at = <<>>

\* C27: the balance is 1000.0 less the amounts of all bets of the ledger
\* plus the potential_payout of the bets that are WON.
C27_AccountingConservation ==
    balance = InitialBalance
              - SumOver([i \in 1..Len(bets) |-> bets[i].amount],
                        1..Len(bets))
              + SumOver([i \in 1..Len(bets) |-> bets[i].potential_payout],
                        {i \in 1..Len(bets) : bets[i].status = "WON"})

C27_Witness ==
    /\ \E i, j \in 1..Len(bets) :
          /\ bets[i].status = "WON" /\ bets[i].amount > 0
          /\ bets[j].status = "LOST" /\ bets[j].amount > 0
    /\ balance = InitialBalance - 1000 + 250

\* C28: with one ledger object and saves that succeed, the file holds the
\* balance and the bets the object holds in memory whenever no call is in
\* progress, also after update_results ended with an exception.
C28_FileAgreesWithMemory ==
    file = "ok" /\ stored = Snapshot(balance, bets)

\* C30: an OPEN bet whose outcome is no label of its market keeps its
\* current_price while the market is not resolved, and is settled as LOST,
\* never WON and with no credit, by the pass that finds the market resolved
\* with an outcome priced at 0.99 or more.
C30_UnmatchedLabelLoses ==
    [][IsUpdateStep =>
        /\ \A i \in Answered :
              LabelPosition(bets[i], feed) = 0 =>
                  /\ bets'[i].current_price = bets[i].current_price
                  /\ bets'[i].status # "WON"
                  /\ ~IsOver(feed) => bets'[i].status = "OPEN"
                  /\ SettledInStep(i) =>
                        /\ bets'[i].status = "LOST"
                        /\ bets'[i].result_checked_at # <<>>
        /\ balance' = balance +
              SumOver([i \in 1..Len(bets) |-> bets[i].potential_payout],
                      {i \in Answered :
                          /\ LabelPosition(bets[i], feed) # 0
                          /\ bets'[i].status = "WON"})
      ]_vars

\* A pass against a resolved market has settled as LOST a bet whose outcome
\* is no label of the market, at the price it was placed at.
C30_Witness ==
    /\ call.op = "update_results"
    /\ IsOver(feed)
    /\ \E i \in 1..Len(bets) :
          /\ lookups[i] = "answered"
          /\ \A k \in 1..Len(ItemsOf(feed.outcomes)) :
                ItemsOf(feed.outcomes)[k] # bets[i].outcome
          /\ bets[i].status = "LOST"
          /\ bets[i].current_price = bets[i].price
          /\ balance = InitialBalance - bets[i].amount

\* The market "m1" is resolved, well formed, with an outcome at 1.0.
FeedHasWinner ==
    /\ IsOver(feed)
    /\ feed.outcomes.form = "list"
    /\ feed.outcomePrices.form = "list"
    /\ WinnerPositions(feed) # {}

\* C29: when update_results is called again and again and the lookups of
\* market "m1" from some time on always succeed and show it closed, with
\* well-formed lists and an outcome priced 0.99 or more, every bet on "m1"
\* is from some time on WON or LOST.
C29_EventuallySettled ==
    <>[]FeedHasWinner =>
        <>[](\A i \in 1..Len(bets) :
                bets[i].market_id = "m1" => IsTerminal(bets[i]))

====
